---- MODULE Spec2Model ----
(***************************************************************************)
(* A model of sphero_rvr_chat: the stdio JSON-RPC client MCPClient         *)
(* (src/src/sphero_rvr_chat/mcp_client.py), the child process it talks to, *)
(* the chat application RVRChat (src/src/sphero_rvr_chat/cli.py): its      *)
(* start-up, its turns and its shutdown, and the conversation history      *)
(* ConversationMemory (src/src/rvr_chat/memory.py).                        *)
(*                                                                         *)
(* The client's coroutines run on one asyncio event loop: a coroutine runs *)
(* without interruption from one await that suspends to the next, so each  *)
(* action below is one such run.  The child process and the executor       *)
(* threads that sit in stdout.readline run beside the loop.                *)
(***************************************************************************)
EXTENDS Integers, Sequences, FiniteSets, TLC

\* ------------------------------------------------------------------ bounds
\* Requests the callers of Spec issue in all.
MaxId == 3
\* Requests the chat application of SpecChat issues in all.
MaxAppId == 4
\* Lines the child writes that answer no request (banners, logs, stray JSON).
MaxNoise == 1
\* Lines the stdout pipe holds unread.
MaxPipe == 1
\* Children one client spawns.
MaxProcs == 1
\* Elements of the content list of a tools/call result.
MaxContent == 2
\* Descriptors in the tools list of a tools/list result.
MaxTools == 2
\* Request lines the stdin pipe of the child holds unread (SpecPipes).
MaxStdin == 1
\* Units of diagnostics the stderr pipe of the child holds unread (SpecPipes).
MaxStderr == 1
\* The largest max_messages a ConversationMemory is made with.
MaxHistory == 3
\* Messages one history holds before the callers stop adding to it.
MaxStored == 5
\* Messages the user has the model answer in one run of the chat loop.
MaxTurns == 2
\* Tool calls the model asks for in one reply.
MaxCalls == 2

\* The coroutines that call into one MCPClient concurrently.
Tasks == {1, 2}

\* process.wait(timeout=5)
GracePeriod == 5

\* ------------------------------------------------- lines of the child's stdout
\* A line is the sequence of its tokens, the trailing newline left out: SP is
\* a run of whitespace, LB and RB are the braces, TXT is any other text, and
\* BODY is the member list of a JSON object carrying an id and a result or an
\* error (id 0: no id member; has "none": neither member).
Tok(c) == [c |-> c, id |-> 0, has |-> ""]

SP == Tok("SP")

LB == Tok("LB")

RB == Tok("RB")

TXT == Tok("TXT")

Body(id, has) == [c |-> "BODY", id |-> id, has |-> has]

\* What a conforming child writes for the message {id, result|error}.
ValidLine(id, has) == <<LB, Body(id, has), RB>>

\* Lines that answer no request: empty, blank, a banner, "{not json", a log
\* line that quotes JSON, JSON followed by text, the empty object "{}", and an
\* indented notification (valid JSON without id).
NoiseLines ==
  { <<>>, <<SP>>, <<TXT>>, <<LB, TXT>>, <<TXT, LB, RB>>, <<LB, RB, TXT>>,
    <<LB, RB>>, <<SP, LB, Body(0, "none"), RB, SP>> }

\* One line of each effect, for the runs that do not examine the framing: a
\* banner (skipped) and a notification (decoded).
StrayLines == { <<TXT>>, <<SP, LB, Body(0, "none"), RB, SP>> }

\* A decoded JSON object, and the values that are none.
Msg(id, has) == [id |-> id, has |-> has]

None == Msg(-1, "None")

JSONDecodeError == Msg(-1, "JSONDecodeError")

\* str.strip(): leading and trailing whitespace removed.
RECURSIVE StripLeft(_)
StripLeft(s) ==
  IF s # <<>> /\ Head(s) = SP THEN StripLeft(Tail(s)) ELSE s

RECURSIVE StripRight(_)
StripRight(s) ==
  IF s # <<>> /\ s[Len(s)] = SP THEN StripRight(SubSeq(s, 1, Len(s) - 1)) ELSE s

StripNothing(s) == s

Strip(s) == StripRight(StripLeft(s))

\* json.loads on a stripped line that starts with "{": the object, or
\* JSONDecodeError.
JsonLoads(s) ==
  IF s = <<LB, RB>> THEN Msg(0, "none")
  ELSE IF Len(s) = 3 /\ s[1] = LB /\ s[2].c = "BODY" /\ s[3] = RB
       THEN Msg(s[2].id, s[2].has)
       ELSE JSONDecodeError

\* response_line.startswith("{")
StartsWithBrace(s) == s # <<>> /\ Head(s) = LB

\* One pass of the read loop over a line readline returned: the message the
\* call returns, or None when the loop goes round again.
LineResult(raw) ==
  LET s == Strip(raw)
  IN  IF s = <<>> THEN None
      ELSE IF StartsWithBrace(s)
           THEN (IF JsonLoads(s) # JSONDecodeError THEN JsonLoads(s) ELSE None)
           ELSE None

\* ------------------------------------------ responses and what is made of them
\* A JSON value as the functions below look at it: its type t and, where it is
\* a string (or a named schema object), its text s.  "absent" stands for a
\* member the enclosing object does not have.
Scalar(t, s) == [t |-> t, s |-> s]

Absent == Scalar("absent", "")

Str(s) == Scalar("string", s)

\* The strings a text member holds: two objects, an array, the empty object,
\* plain text and the empty string.
Texts ==
  { "{\"battery_percentage\":87}", "{\"error\":\"Not connected\"}", "[1,2]",
    "{}", "not json", "" }

\* The values of a text or message member.
TextVals ==
  {Absent} \cup {Scalar(t, "") : t \in {"null", "number", "array", "object"}}
           \cup {Str(s) : s \in Texts}

\* json.loads(text) on a string: it decodes, or raises JSONDecodeError.
TextDecodes(s) ==
  s \in {"{\"battery_percentage\":87}", "{\"error\":\"Not connected\"}",
         "[1,2]", "{}"}

\* The value json.loads makes of a string that decodes: its type, the keys it
\* has when it is an object, and the text it was decoded from.
JsonLoadsText(s) ==
  IF s = "[1,2]" THEN [t |-> "array", keys |-> {}, of |-> Str(s)]
  ELSE IF s = "{\"battery_percentage\":87}"
       THEN [t |-> "object", keys |-> {"battery_percentage"}, of |-> Str(s)]
  ELSE IF s = "{\"error\":\"Not connected\"}"
       THEN [t |-> "object", keys |-> {"error"}, of |-> Str(s)]
  ELSE [t |-> "object", keys |-> {}, of |-> Str(s)]

\* The sequences over S of length up to n.
SeqsUpTo(S, n) == UNION {[1..k -> S] : k \in 0..n}

\* An element of a content list.
Element(t, text) == [t |-> t, text |-> text]

Elements ==
  {Element("object", x) : x \in TextVals}
    \cup {Element(t, Absent) : t \in {"null", "number", "string", "array"}}

\* The content member of a result: a list of elements, or a value of another
\* type, which is falsy (null, false, 0, "", {}) or not.
Content(t, truthy, items) == [t |-> t, truthy |-> truthy, items |-> items]

AbsentContent == Content("absent", FALSE, <<>>)

EmptyList == Content("array", FALSE, <<>>)

Contents ==
  {AbsentContent, Content("null", FALSE, <<>>)}
    \cup {Content(t, b, <<>>) :
            t \in {"bool", "number", "string", "object"}, b \in BOOLEAN}
    \cup {Content("array", items # <<>>, items) :
            items \in SeqsUpTo(Elements, MaxContent)}

\* A tool descriptor of a tools/list result.
Descriptor(name, description, inputSchema) ==
  [name |-> name, description |-> description, inputSchema |-> inputSchema]

Descriptors ==
  { Descriptor(n, d, i) :
      n \in {Absent, Str("connect"), Str("drive")},
      d \in {Absent, Str("d")},
      i \in {Absent, Scalar("object", "{\"type\":\"object\",\"required\":[]}")} }

\* The tools member of a result.
ToolList(t, items) == [t |-> t, items |-> items]

AbsentTools == ToolList("absent", <<>>)

NoTools == ToolList("array", <<>>)

\* (a tools member that is a string is a non-empty one)
ToolLists ==
  {AbsentTools, ToolList("null", <<>>), ToolList("string", <<>>)}
    \cup {ToolList("array", items) : items \in SeqsUpTo(Descriptors, MaxTools)}

\* The result member of a response.
Result(t, content, tools) == [t |-> t, content |-> content, tools |-> tools]

AbsentResult == Result("absent", AbsentContent, AbsentTools)

Results ==
  {Result(t, AbsentContent, AbsentTools) :
     t \in {"absent", "null", "number", "string", "array"}}
    \cup {Result("object", c, AbsentTools) : c \in Contents}
    \cup {Result("object", AbsentContent, l) : l \in ToolLists}

\* The error member of a response.
Error(t, message) == [t |-> t, message |-> message]

AbsentError == Error("absent", Absent)

Errors ==
  {Error(t, Absent) : t \in {"absent", "null", "number", "string", "array"}}
    \cup {Error("object", m) : m \in TextVals}

\* What _request returned: None, or the decoded object with its result and
\* error members.
Response(result, error) == [none |-> FALSE, result |-> result, error |-> error]

NoResponse == [none |-> TRUE, result |-> AbsentResult, error |-> AbsentError]

Responses ==
  {NoResponse} \cup {Response(r, e) : r \in Results, e \in Errors}

\* What a function did: it returned v, or it raised the exception exc.
Returned(kind, v) == [how |-> "return", kind |-> kind, v |-> v]

Raised(exc) == [how |-> "raise", kind |-> exc, v |-> Absent]

\* "response and 'result' in response"
HasResultMember(resp) == ~resp.none /\ resp.result.t # "absent"

\* "response and 'error' in response"
HasErrorMember(resp) == ~resp.none /\ resp.error.t # "absent"

\* bool(content)
Truthy(c) == IF c.t = "array" THEN c.items # <<>> ELSE c.truthy

\* The object {key: x}.
Wrapped(key, x) == [t |-> "object", keys |-> {key}, of |-> x]

\* call_tool: content[0].get("text", "{}"), json.loads(text), and the
\* JSONDecodeError handler.
FirstText(e) ==
  IF e.t # "object" THEN Raised("AttributeError")
  ELSE LET text == IF e.text.t = "absent" THEN Str("{}") ELSE e.text
       IN  IF text.t # "string" THEN Raised("TypeError")
           ELSE IF TextDecodes(text.s)
                THEN Returned("decoded", JsonLoadsText(text.s))
                ELSE Returned("wrapped", Wrapped("result", text))

\* call_tool: "content and len(content) > 0", then content[0].
FirstOfContent(c) ==
  CASE c.t \in {"bool", "number"} -> Raised("TypeError")
    [] c.t = "string" -> Raised("AttributeError")
    [] c.t = "object" -> Raised("KeyError")
    [] OTHER -> FirstText(c.items[1])

UnknownError == "Unknown error"

NoResponseMessage == "No response from MCP server"

\* {"error": message}
ErrorValue(m) == Returned("error", Wrapped("error", m))

\* call_tool from "if response and 'error' in response" on.
ErrorBranch(resp) ==
  IF HasErrorMember(resp)
  THEN IF resp.error.t # "object" THEN Raised("AttributeError")
       ELSE IF resp.error.message.t = "absent"
            THEN ErrorValue(Str(UnknownError))
            ELSE ErrorValue(resp.error.message)
  ELSE ErrorValue(Str(NoResponseMessage))

\* MCPClient.call_tool, from the return of _request on.
CallTool(resp) ==
  IF HasResultMember(resp)
  THEN IF resp.result.t # "object" THEN Raised("AttributeError")
       ELSE LET content == IF resp.result.content.t = "absent"
                           THEN EmptyList ELSE resp.result.content
            IN  IF Truthy(content) THEN FirstOfContent(content)
                ELSE ErrorBranch(resp)
  ELSE ErrorBranch(resp)

\* MCPClient.list_tools, from the return of _request on.
ListToolsDefault == NoTools

ListTools(resp) ==
  IF HasResultMember(resp)
  THEN IF resp.result.t # "object" THEN Raised("AttributeError")
       ELSE IF resp.result.tools.t = "absent"
            THEN Returned("tools", ListToolsDefault)
            ELSE Returned("tools", resp.result.tools)
  ELSE Returned("tools", NoTools)

\* convert_tools_to_ollama: the default of "parameters" and of "description".
DefaultParametersNone == Scalar("null", "")

DefaultParameters == Scalar("object", "{\"type\":\"object\",\"properties\":{}}")

DefaultDescription == Str("")

OllamaTool(tool) ==
  [ type |-> "function",
    function |->
      [ name |-> tool.name,
        description |-> IF tool.description.t = "absent"
                        THEN DefaultDescription ELSE tool.description,
        parameters |-> IF tool.inputSchema.t = "absent"
                       THEN DefaultParameters ELSE tool.inputSchema ] ]

\* convert_tools_to_ollama: tool["name"] raises KeyError on a descriptor
\* without a name; iterating None or indexing a character raises TypeError.
ConvertToolsToOllama(mcp_tools) ==
  IF mcp_tools.t # "array" THEN Raised("TypeError")
  ELSE IF \E i \in 1..Len(mcp_tools.items) : mcp_tools.items[i].name.t = "absent"
       THEN Raised("KeyError")
       ELSE [ how |-> "return", kind |-> "ollama_tools",
              v |-> [i \in 1..Len(mcp_tools.items) |->
                       OllamaTool(mcp_tools.items[i])] ]

\* Nothing has been decoded.
NotRun == Raised("")

\* The functions are not under examination.
NoFn == [pc |-> "none"]

\* _request has returned resp to a function that has not gone on yet.
FnGiven(resp) ==
  [ pc |-> "response", resp |-> resp, value |-> NotRun, tools |-> NotRun,
    before |-> NoTools, ollama |-> NotRun ]

\* ------------------------------------------------------ ConversationMemory
\* A message of the history: its role, the name of the tool (0: no name
\* member), its content and the number of tool calls it carries (0: no
\* tool_calls member).
Message(role, name, content, tool_calls) ==
  [role |-> role, name |-> name, content |-> content, tool_calls |-> tool_calls]

\* ConversationMemory.__init__ (the metadata timestamps and the session name
\* are left out: nothing reads them but save).
ConversationMemory(max_messages) ==
  [max_messages |-> max_messages, messages |-> <<>>]

\* No ConversationMemory is under examination.
NoMemory == [max_messages |-> 0]

\* The slice messages[-k:] for k >= 0: the last k messages, all of them when
\* there are no more than k, and, -0 being 0, all of them when k is 0.
LastOf(messages, k) ==
  IF k = 0 \/ Len(messages) <= k THEN messages
  ELSE SubSeq(messages, Len(messages) - k + 1, Len(messages))

\* messages[0].get("role") == "system"
FirstIsSystem(messages) == messages # <<>> /\ messages[1].role = "system"

\* add_message: "Trim if needed (keep system prompt + recent messages)".
Trim(max_messages, messages) ==
  IF Len(messages) > max_messages
  THEN IF FirstIsSystem(messages)
       THEN <<messages[1]>> \o LastOf(messages, max_messages - 1)
       ELSE LastOf(messages, max_messages)
  ELSE messages

\* ConversationMemory.add_message
AddMessage(mem, role, content, tool_calls) ==
  [mem EXCEPT !.messages =
     Trim(mem.max_messages, Append(@, Message(role, 0, content, tool_calls)))]

\* ConversationMemory.add_tool_result
AddToolResult(mem, tool_name, result) ==
  [mem EXCEPT !.messages = Append(@, Message("tool", tool_name, result, 0))]

\* ConversationMemory.clear
Clear(mem) ==
  [mem EXCEPT !.messages = IF FirstIsSystem(@) THEN <<@[1]>> ELSE <<>>]

\* ------------------------------------------------------------------- state
VARIABLES
  process,      \* MCPClient.process: 0 (None) or the number of the child spawned
  request_id,   \* MCPClient._request_id
  lockHolder,   \* MCPClient._lock: the task inside "async with", 0 when unlocked
  lockWaiters,  \* MCPClient._lock: the tasks suspended in acquire, first first
  child,        \* the child process behind process (or the last one)
  staleReads,   \* executor threads still in stdout.readline for a call that gave up
  wire,         \* every line written to a child's stdin, in write order
  task,         \* per task: the operation it is suspended in
  last,         \* the operation that returned last, and what it returned
  stopper,      \* the task inside MCPClient.stop's process.wait, 0 when none
  graceElapsed, \* time units process.wait(timeout=5) has waited
  hadTimeout,   \* some call of this client has ended in TimeoutError
  writeErrors,  \* calls that took an id and raised before their line was written
  readLog,      \* the lines the read loop received from readline, in order
  surfaced,     \* the messages the read loop returned, in order
  app,          \* RVRChat: where run() is, and what its start-up saw
  fn,           \* a response handed to the functions that decode it, and their results
  memory        \* RVRChat.memory: a ConversationMemory, its max_messages and messages

vars ==
  << process, request_id, lockHolder, lockWaiters, child, staleReads, wire,
     task, last, stopper, graceElapsed, hadTimeout, writeErrors, readLog,
     surfaced, app, fn, memory >>

\* A task that is in no operation.
IdleTask ==
  [ pc |-> "idle", op |-> "", method |-> "", enc |-> TRUE, callId |-> 0,
    ownTaken |-> FALSE ]

\* No operation has returned yet.
NoLast ==
  [ op |-> "", callId |-> 0, ret |-> None, how |-> "",
    result |-> "", afterTimeout |-> FALSE, ownTaken |-> FALSE ]

\* No child yet.
NoChild ==
  [ gen |-> 0, state |-> "none", inbox |-> <<>>, out |-> <<>>, noise |-> 0,
    terms |-> 0, kills |-> 0, reaps |-> 0, err |-> 0 ]

\* subprocess.Popen(...) succeeded: a running child with empty pipes.
Spawned(c) ==
  [ gen |-> c.gen + 1, state |-> "running", inbox |-> <<>>, out |-> <<>>,
    noise |-> 0, terms |-> 0, kills |-> 0, reaps |-> 0, err |-> 0 ]

\* MCPClient.__init__
ClientInit ==
  /\ process = 0
  /\ request_id = 0
  /\ lockHolder = 0
  /\ lockWaiters = <<>>
  /\ child = NoChild
  /\ staleReads = 0
  /\ wire = <<>>
  /\ task = [t \in Tasks |-> IdleTask]
  /\ last = NoLast
  /\ stopper = 0
  /\ graceElapsed = 0
  /\ hadTimeout = FALSE
  /\ writeErrors = 0
  /\ readLog = <<>>
  /\ surfaced = <<>>

\* ------------------------------------------------------ the client's helpers
\* self._request_id += 1
NextRequestIdReused(id) == IF id >= 1 THEN id ELSE id + 1

NextRequestId(id) == id + 1

\* asyncio.Lock.acquire takes the lock at once when it is unlocked and no task
\* waits for it.
CanAcquireAlways == TRUE

CanAcquireNow == lockHolder = 0 /\ lockWaiters = <<>>

\* The child lives: it runs, or it is blocked in a write to its stderr, whose
\* pipe (stderr=subprocess.PIPE) nobody reads.
Alive(c) == c.state \in {"running", "blocked"}

\* The runs that give the pipes of the child their capacity.
Piped == app.pc = "pipes"

\* stdin.write/flush does not return: the stdin pipe is full of lines the
\* child has not read.
WriteBlocks(c) == Piped /\ Alive(c) /\ Len(c.inbox) >= MaxStdin

\* json.dumps(request), stdin.write, stdin.flush all ran without raising: the
\* client holds a process, the params encode, the child has its stdin open.
WriteSucceeds(p, c, enc) == p # 0 /\ enc /\ Alive(c)

\* start: "response and 'result' in response"
HandshakeOkAnyResponse(resp) == resp # None

HandshakeOk(resp) == resp # None /\ resp.has = "result"

\* _notify wrote its line: the client holds a process whose stdin is open; a
\* write that raises is swallowed.
NotifyWritten(p, c) == p # 0 /\ Alive(c)

\* What the operation o returns once its _request returned resp.
OpResult(o, resp) ==
  CASE o = "start" -> (IF HandshakeOk(resp) THEN "true" ELSE "false")
    [] o = "list_tools" ->
         (IF resp # None /\ resp.has = "result" THEN "tools" ELSE "empty")
    [] o = "call_tool" ->
         (IF resp # None /\ resp.has = "result" THEN "value"
          ELSE IF resp # None /\ resp.has = "error" THEN "error"
          ELSE "no_response")
    [] OTHER -> ""

\* The line _notify writes: a method and params, no id.
NotificationWithId == [id |-> 1, method |-> "notifications/initialized"]

Notification == [id |-> 0, method |-> "notifications/initialized"]

\* The wire after operation o went on from its _request returning resp: start
\* sends the initialized notification when the handshake succeeded.
WireAfter(w, o, resp, p, c) ==
  IF o = "start" /\ HandshakeOk(resp) /\ NotifyWritten(p, c)
  THEN Append(w, Notification)
  ELSE w

\* What is known of an operation of task t, suspended as r, that returned
\* after its _request returned resp.
Outcome(t, r, resp, how) ==
  [ op |-> r.op, callId |-> r.callId, ret |-> resp, how |-> how,
    result |-> OpResult(r.op, resp), afterTimeout |-> hadTimeout,
    ownTaken |-> r.ownTaken ]

\* The record of a task that starts operation o with a request for method m.
CallRec(o, m, enc) ==
  [IdleTask EXCEPT !.op = o, !.method = m, !.enc = enc]

\* "async with self._lock" is left: the lock is unlocked.
LockKept(t) == t

Released(t) == 0

\* Inside the lock, up to the first await: the id is taken, the request line
\* is written and flushed, and the first readline is handed to the executor;
\* an exception from the write ends the call with None.  The write is a
\* blocking call made on the event loop: on a full pipe it does not return.
EnterSection(t, r, p, c, waiters) ==
  LET id == NextRequestId(request_id)
  IN  /\ request_id' = id
      /\ lockWaiters' = waiters
      /\ IF WriteSucceeds(p, c, r.enc) /\ WriteBlocks(c)
         THEN /\ wire' = wire
              /\ child' = c
              /\ lockHolder' = t
              /\ task' = [task EXCEPT ![t] =
                            [r EXCEPT !.pc = "writing", !.callId = id]]
              /\ UNCHANGED << last, writeErrors >>
         ELSE IF WriteSucceeds(p, c, r.enc)
         THEN /\ wire' = Append(wire, [id |-> id, method |-> r.method])
              /\ child' = [c EXCEPT !.inbox = Append(@, id)]
              /\ lockHolder' = t
              /\ task' = [task EXCEPT ![t] =
                            [r EXCEPT !.pc = "reading", !.callId = id]]
              /\ UNCHANGED << last, writeErrors >>
         ELSE /\ wire' = wire
              /\ child' = c
              /\ lockHolder' = Released(t)
              /\ task' = [task EXCEPT ![t] = IdleTask]
              /\ last' = Outcome(t, [r EXCEPT !.callId = id], None, "error")
              /\ writeErrors' = writeErrors + 1

\* _request: "if not self.process or not self.process.stdin or not
\* self.process.stdout: return None" (the pipes of a process exist).
HasProcessAlways(p) == TRUE

HasProcess(p) == p # 0

\* _request up to its first suspension, on the process p with child c.
BeginRequest(t, r, p, c) ==
  /\ process' = p
  /\ IF ~HasProcess(p)
     THEN /\ last' = Outcome(t, r, None, "noproc")
          /\ child' = c
          /\ UNCHANGED << request_id, lockHolder, lockWaiters, wire, task,
                          writeErrors >>
     ELSE IF CanAcquireNow
          THEN EnterSection(t, r, p, c, lockWaiters)
          ELSE /\ task' = [task EXCEPT ![t] = [r EXCEPT !.pc = "waiting"]]
               /\ lockWaiters' = Append(lockWaiters, t)
               /\ child' = c
               /\ UNCHANGED << request_id, lockHolder, wire, last, writeErrors >>

\* The event loop runs client code only while no coroutine blocks it: stop's
\* process.wait and _request's stdin.write are blocking calls made on the
\* loop.
LoopFree == stopper = 0 /\ \A u \in Tasks : task[u].pc # "writing"

\* The call of task t ends with resp: the lock is released and the operation
\* that awaited _request runs on to its return, all without suspending.
FinishCall(t, resp, how, c) ==
  /\ task' = [task EXCEPT ![t] = IdleTask]
  /\ last' = Outcome(t, task[t], resp, how)
  /\ lockHolder' = Released(t)
  /\ wire' = WireAfter(wire, task[t].op, resp, process, c)

\* The callers of this model call start only on a client that holds no
\* process and has no call in flight (a new client, or one that was stopped).
CallerMayStart ==
  /\ process = 0
  /\ \A u \in Tasks : task[u].pc = "idle"

\* Requests taken or about to be taken, against the bound b.
RequestsBelow(b) == request_id + Len(lockWaiters) < b

\* The lines and messages of the read loop are recorded in the runs that
\* examine the framing.
Logging == app.pc = "framer"

Log(l, x) == IF Logging THEN Append(l, x) ELSE l

\* The runs of one caller that stops its client and starts it again.
Serial == app.pc = "serial"

\* Those runs let the client spawn one child more.
SpawnLimit == IF Serial THEN MaxProcs + 1 ELSE MaxProcs

\* Those runs let the child write one more line that answers nothing.
NoiseBudget == IF Logging THEN MaxNoise + 1 ELSE MaxNoise

\* ------------------------------------------------- the client's operations
\* MCPClient.start, Popen raising: the exception is caught, start returns False.
StartSpawnFailsBody(t) ==
  /\ LoopFree
  /\ task[t].pc = "idle"
  /\ CallerMayStart
  /\ last' = [Outcome(t, CallRec("start", "initialize", TRUE), None,
                      "spawn_error") EXCEPT !.result = "false"]
  /\ UNCHANGED << process, request_id, lockHolder, lockWaiters, child,
                  staleReads, wire, task, stopper, graceElapsed, hadTimeout,
                  writeErrors, readLog, surfaced, fn >>

\* MCPClient.start, up to the await of the initialize request.
StartSpawnsBody(t, b) ==
  /\ LoopFree
  /\ task[t].pc = "idle"
  /\ CallerMayStart
  /\ child.gen < SpawnLimit
  /\ RequestsBelow(b)
  /\ BeginRequest(t, CallRec("start", "initialize", TRUE),
                  child.gen + 1, Spawned(child))
  /\ staleReads' = 0
  /\ UNCHANGED << stopper, graceElapsed, hadTimeout, readLog, surfaced, fn >>

\* MCPClient.list_tools, up to the await of its request.
ListToolsBody(t, b) ==
  /\ LoopFree
  /\ task[t].pc = "idle"
  /\ RequestsBelow(b)
  /\ BeginRequest(t, CallRec("list_tools", "tools/list", TRUE), process, child)
  /\ UNCHANGED << staleReads, stopper, graceElapsed, hadTimeout, readLog,
                  surfaced, fn >>

\* MCPClient.call_tool, up to the await of its request; enc: whether the
\* arguments encode as JSON.
CallToolBody(t, enc, b) ==
  /\ LoopFree
  /\ task[t].pc = "idle"
  /\ RequestsBelow(b)
  /\ BeginRequest(t, CallRec("call_tool", "tools/call", enc), process, child)
  /\ UNCHANGED << staleReads, stopper, graceElapsed, hadTimeout, readLog,
                  surfaced, fn >>

\* A task suspended in "async with self._lock" is woken: first come, first
\* served.
AcquireFromQueue(t) ==
  /\ LoopFree
  /\ task[t].pc = "waiting"
  /\ lockHolder = 0
  /\ lockWaiters # <<>>
  /\ Head(lockWaiters) = t
  /\ EnterSection(t, task[t], process, child, Tail(lockWaiters))
  /\ UNCHANGED << process, staleReads, stopper, graceElapsed, hadTimeout,
                  readLog, surfaced, app, fn, memory >>

\* The read loop of _request gets a line from readline.
DeliverLive(t) ==
  /\ LoopFree
  /\ task[t].pc = "reading"
  /\ child.out # <<>>
  /\ LET raw == Head(child.out)
         c1 == [child EXCEPT !.out = Tail(@)]
         m == LineResult(raw)
     IN  /\ child' = c1
         /\ readLog' = Log(readLog, raw)
         /\ IF m # None
            THEN /\ surfaced' = Log(surfaced, m)
                 /\ FinishCall(t, m, "response", c1)
                 /\ UNCHANGED hadTimeout
            ELSE /\ surfaced' = surfaced
                 /\ \/ \* the loop goes round: the next readline is submitted
                       /\ process # 0
                       /\ UNCHANGED << task, last, lockHolder, wire, hadTimeout >>
                    \/ \* remaining <= 0: TimeoutError at the top of the loop
                       /\ FinishCall(t, None, "timeout", c1)
                       /\ hadTimeout' = TRUE
                    \/ \* stop has set process to None: the next readline raises
                       /\ process = 0
                       /\ FinishCall(t, None, "error", c1)
                       /\ UNCHANGED hadTimeout
  /\ UNCHANGED << process, request_id, lockWaiters, staleReads, stopper,
                  graceElapsed, writeErrors, app, fn, memory >>

\* readline returned the empty string: "if not response_line: return None".
EmptyReadSpins == "timeout"

EmptyReadOutcome == "closed"

\* The child's stdout is at end-of-stream: the pending readline returns "".
ReadEOF(t) ==
  /\ LoopFree
  /\ task[t].pc = "reading"
  /\ child.out = <<>>
  /\ child.state # "running"
  /\ FinishCall(t, None, EmptyReadOutcome, child)
  /\ hadTimeout' = (hadTimeout \/ EmptyReadOutcome = "timeout")
  /\ UNCHANGED << process, request_id, lockWaiters, child, staleReads, stopper,
                  graceElapsed, writeErrors, readLog, surfaced, app, fn, memory >>

\* asyncio.wait_for gives up on a readline that has not returned: the call
\* ends with TimeoutError, the executor thread stays in readline.
Timeout(t) ==
  /\ LoopFree
  /\ task[t].pc = "reading"
  /\ child.out = <<>>
  /\ Alive(child)
  /\ FinishCall(t, None, "timeout", child)
  /\ staleReads' = staleReads + 1
  /\ hadTimeout' = TRUE
  /\ UNCHANGED << process, request_id, lockWaiters, child, stopper,
                  graceElapsed, writeErrors, readLog, surfaced, app, fn, memory >>

\* A readline left behind by a call that timed out gets the next line; its
\* future was cancelled, so the line is dropped.
DeliverStale ==
  /\ staleReads > 0
  /\ child.out # <<>>
  /\ LET raw == Head(child.out)
     IN  task' = [u \in Tasks |->
                    [task[u] EXCEPT !.ownTaken =
                       @ \/ ( /\ task[u].pc = "reading"
                              /\ LineResult(raw) # None
                              /\ LineResult(raw).id = task[u].callId )]]
  /\ child' = [child EXCEPT !.out = Tail(@)]
  /\ staleReads' = staleReads - 1
  /\ UNCHANGED << process, request_id, lockHolder, lockWaiters, wire, last,
                  stopper, graceElapsed, hadTimeout, writeErrors, readLog,
                  surfaced, app, fn, memory >>

\* The readlines left behind return "" at end-of-stream.
StaleEOF ==
  /\ staleReads > 0
  /\ child.out = <<>>
  /\ child.state \in {"exited", "reaped"}
  /\ staleReads' = 0
  /\ UNCHANGED << process, request_id, lockHolder, lockWaiters, child, wire,
                  task, last, stopper, graceElapsed, hadTimeout, writeErrors,
                  readLog, surfaced, app, fn, memory >>

\* ------------------------------------------------------------ MCPClient.stop
\* process.wait() returned: the child is reaped.
Reaped(c) == [c EXCEPT !.state = "reaped", !.reaps = @ + 1]

\* process.kill(): the child dies at once and stays unreaped until waited for.
Killed(c) == [c EXCEPT !.state = "exited", !.kills = @ + 1, !.inbox = <<>>]

\* stop on a client that holds no process: nothing is done.
StopNoProcessBody(t) ==
  /\ LoopFree
  /\ task[t].pc = "idle"
  /\ process = 0
  /\ last' = Outcome(t, [IdleTask EXCEPT !.op = "stop"], None, "noproc")
  /\ UNCHANGED << process, request_id, lockHolder, lockWaiters, child,
                  staleReads, wire, task, stopper, graceElapsed, hadTimeout,
                  writeErrors, readLog, surfaced, fn >>

\* stop: process.terminate(), then process.wait(timeout=5) blocks the loop.
StopTerminateBody(t) ==
  /\ LoopFree
  /\ task[t].pc = "idle"
  /\ process # 0
  /\ child' = [child EXCEPT !.terms = @ + 1]
  /\ stopper' = t
  /\ graceElapsed' = 0
  /\ task' = [task EXCEPT ![t] =
                [IdleTask EXCEPT !.pc = "stopping", !.op = "stop"]]
  /\ UNCHANGED << process, request_id, lockHolder, lockWaiters, staleReads,
                  wire, last, hadTimeout, writeErrors, readLog, surfaced, fn >>

\* One time unit of process.wait passes with the child still running.
GraceTick ==
  /\ stopper # 0
  /\ Alive(child)
  /\ graceElapsed < GracePeriod
  /\ graceElapsed' = graceElapsed + 1
  /\ UNCHANGED << process, request_id, lockHolder, lockWaiters, child,
                  staleReads, wire, task, last, stopper, hadTimeout,
                  writeErrors, readLog, surfaced, app, fn, memory >>

\* process.wait returns because the child has exited; self.process = None.
StopWaitReturns ==
  /\ stopper # 0
  /\ child.state = "exited"
  /\ child' = Reaped(child)
  /\ process' = 0
  /\ task' = [task EXCEPT ![stopper] = IdleTask]
  /\ last' = Outcome(stopper, task[stopper], None, "exited")
  /\ stopper' = 0
  /\ graceElapsed' = 0
  /\ UNCHANGED << request_id, lockHolder, lockWaiters, staleReads, wire,
                  hadTimeout, writeErrors, readLog, surfaced, app, fn, memory >>

\* process.wait raises TimeoutExpired: process.kill(); self.process = None.
StopWaitExpired ==
  /\ stopper # 0
  /\ Alive(child)
  /\ graceElapsed = GracePeriod
  /\ child' = Killed(child)
  /\ process' = 0
  /\ task' = [task EXCEPT ![stopper] = IdleTask]
  /\ last' = Outcome(stopper, task[stopper], None, "killed")
  /\ stopper' = 0
  /\ graceElapsed' = 0
  /\ UNCHANGED << request_id, lockHolder, lockWaiters, staleReads, wire,
                  hadTimeout, writeErrors, readLog, surfaced, app, fn, memory >>

\* ---------------------------------------------------------------- the child
\* The child answers the oldest request it has not answered, with a result or
\* an error.
ChildRespond(has) ==
  /\ child.state = "running"
  /\ child.inbox # <<>>
  /\ Len(child.out) < MaxPipe
  /\ child' = [child EXCEPT !.inbox = Tail(@),
                            !.out = Append(@, ValidLine(Head(child.inbox), has))]
  /\ UNCHANGED << process, request_id, lockHolder, lockWaiters, staleReads,
                  wire, task, last, stopper, graceElapsed, hadTimeout,
                  writeErrors, readLog, surfaced, app, fn, memory >>

\* The child drops a request without ever answering it.
ChildIgnore ==
  /\ child.state = "running"
  /\ child.inbox # <<>>
  /\ child' = [child EXCEPT !.inbox = Tail(@)]
  /\ UNCHANGED << process, request_id, lockHolder, lockWaiters, staleReads,
                  wire, task, last, stopper, graceElapsed, hadTimeout,
                  writeErrors, readLog, surfaced, app, fn, memory >>

\* The child writes a line that answers nothing.
ChildNoise(line) ==
  /\ line \in (IF Logging THEN NoiseLines ELSE StrayLines)
  /\ child.state = "running"
  /\ child.noise < NoiseBudget
  /\ Len(child.out) < MaxPipe
  /\ child' = [child EXCEPT !.noise = @ + 1, !.out = Append(@, line)]
  /\ UNCHANGED << process, request_id, lockHolder, lockWaiters, staleReads,
                  wire, task, last, stopper, graceElapsed, hadTimeout,
                  writeErrors, readLog, surfaced, app, fn, memory >>

\* The child exits, by itself or on SIGTERM: its stdin breaks, its stdout
\* reaches end-of-stream after the lines already written.
ChildExit ==
  /\ child.state = "running" \/ (child.state = "blocked" /\ child.terms > 0)
  /\ child' = [child EXCEPT !.state = "exited", !.inbox = <<>>, !.noise = 0]
  /\ UNCHANGED << process, request_id, lockHolder, lockWaiters, staleReads,
                  wire, task, last, stopper, graceElapsed, hadTimeout,
                  writeErrors, readLog, surfaced, app, fn, memory >>

\* The child writes a unit of diagnostics to its stderr; when the pipe is
\* full the write does not return, and the child does nothing else.
ChildStderr ==
  /\ Piped
  /\ child.state = "running"
  /\ child' = IF child.err < MaxStderr
              THEN [child EXCEPT !.err = @ + 1]
              ELSE [child EXCEPT !.state = "blocked"]
  /\ UNCHANGED << process, request_id, lockHolder, lockWaiters, staleReads,
                  wire, task, last, stopper, graceElapsed, hadTimeout,
                  writeErrors, readLog, surfaced, app, fn, memory >>

\* The blocked stdin.write of task t returns: the child has read a line and
\* made room, or it has died and the write raises BrokenPipeError.
WriteUnblocks(t) ==
  /\ task[t].pc = "writing"
  /\ ~WriteBlocks(child)
  /\ IF Alive(child)
     THEN /\ wire' = Append(wire, [id |-> task[t].callId,
                                   method |-> task[t].method])
          /\ child' = [child EXCEPT !.inbox = Append(@, task[t].callId)]
          /\ task' = [task EXCEPT ![t] = [@ EXCEPT !.pc = "reading"]]
          /\ UNCHANGED << last, lockHolder, writeErrors >>
     ELSE /\ FinishCall(t, None, "error", child)
          /\ writeErrors' = writeErrors + 1
          /\ child' = child
  /\ UNCHANGED << process, request_id, lockWaiters, staleReads, stopper,
                  graceElapsed, hadTimeout, readLog, surfaced, app, fn, memory >>

\* ------------------------------------- one client under concurrent callers
StartSpawnFails(t) == StartSpawnFailsBody(t) /\ UNCHANGED << app, memory >>

StartSpawns(t) == StartSpawnsBody(t, MaxId) /\ UNCHANGED << app, memory >>

ListToolsBegin(t) == ListToolsBody(t, MaxId) /\ UNCHANGED << app, memory >>

CallToolBegin(t, enc) == CallToolBody(t, enc, MaxId) /\ UNCHANGED << app, memory >>

StopNoProcess(t) == StopNoProcessBody(t) /\ UNCHANGED << app, memory >>

StopTerminate(t) == StopTerminateBody(t) /\ UNCHANGED << app, memory >>

Init ==
  /\ ClientInit
  /\ app = [pc |-> "api", started |-> "none"]
  /\ fn = NoFn
  /\ memory = NoMemory

Next ==
  \/ \E t \in Tasks : StartSpawnFails(t)
  \/ \E t \in Tasks : StartSpawns(t)
  \/ \E t \in Tasks : ListToolsBegin(t)
  \/ \E t \in Tasks, enc \in BOOLEAN : CallToolBegin(t, enc)
  \/ \E t \in Tasks : StopNoProcess(t)
  \/ \E t \in Tasks : StopTerminate(t)
  \/ \E t \in Tasks : AcquireFromQueue(t)
  \/ \E t \in Tasks : DeliverLive(t)
  \/ \E t \in Tasks : ReadEOF(t)
  \/ \E t \in Tasks : Timeout(t)
  \/ GraceTick
  \/ StopWaitReturns
  \/ StopWaitExpired
  \/ \E has \in {"result", "error"} : ChildRespond(has)
  \/ ChildIgnore
  \/ \E line \in NoiseLines : ChildNoise(line)
  \/ ChildExit
  \/ DeliverStale
  \/ StaleEOF

Spec == Init /\ [][Next]_vars

\* --------------------------------------- the read loop under one caller
\* One coroutine starts the client and calls tools; the child mixes every
\* kind of line into its answers.
InitFramer ==
  /\ ClientInit
  /\ app = [pc |-> "framer", started |-> "none"]
  /\ fn = NoFn
  /\ memory = NoMemory

NextFramer ==
  \/ StartSpawns(1)
  \/ CallToolBegin(1, TRUE)
  \/ DeliverLive(1)
  \/ ReadEOF(1)
  \/ Timeout(1)
  \/ \E has \in {"result", "error"} : ChildRespond(has)
  \/ ChildIgnore
  \/ \E line \in NoiseLines : ChildNoise(line)
  \/ ChildExit
  \/ DeliverStale
  \/ StaleEOF

SpecFramer == InitFramer /\ [][NextFramer]_vars

\* ------------------------------------ one caller that stops and starts again
\* One coroutine uses the client as the chat application does, one operation
\* after the other, and goes on using it after stop: it calls, stops again,
\* and starts anew.
InitSerial ==
  /\ ClientInit
  /\ app = [pc |-> "serial", started |-> "none"]
  /\ fn = NoFn
  /\ memory = NoMemory

NextSerial ==
  \/ StartSpawnFails(1)
  \/ StartSpawns(1)
  \/ ListToolsBegin(1)
  \/ CallToolBegin(1, TRUE)
  \/ StopNoProcess(1)
  \/ StopTerminate(1)
  \/ DeliverLive(1)
  \/ ReadEOF(1)
  \/ Timeout(1)
  \/ GraceTick
  \/ StopWaitReturns
  \/ StopWaitExpired
  \/ \E has \in {"result", "error"} : ChildRespond(has)
  \/ ChildIgnore
  \/ \E line \in NoiseLines : ChildNoise(line)
  \/ ChildExit
  \/ DeliverStale
  \/ StaleEOF

SpecSerial == InitSerial /\ [][NextSerial]_vars

\* ------------------------------------------- the pipes of the child, bounded
\* One coroutine starts the client and calls tools.  The child answers, or
\* reads without answering, or does not read at all, and writes diagnostics
\* to its stderr.  The event loop runs what is ready: a readline that has
\* returned, the timer of wait_for, a write that has room.  Nothing obliges
\* the child.
InitPipes ==
  /\ ClientInit
  /\ app = [pc |-> "pipes", started |-> "none"]
  /\ fn = NoFn
  /\ memory = NoMemory

NextPipes ==
  \/ StartSpawns(1)
  \/ CallToolBegin(1, TRUE)
  \/ WriteUnblocks(1)
  \/ DeliverLive(1)
  \/ ReadEOF(1)
  \/ Timeout(1)
  \/ \E has \in {"result", "error"} : ChildRespond(has)
  \/ ChildIgnore
  \/ \E line \in NoiseLines : ChildNoise(line)
  \/ ChildStderr
  \/ ChildExit
  \/ DeliverStale
  \/ StaleEOF

SpecPipes ==
  /\ InitPipes
  /\ [][NextPipes]_vars
  /\ WF_vars(DeliverLive(1) \/ ReadEOF(1) \/ Timeout(1))
  /\ WF_vars(WriteUnblocks(1))

\* ------------------------------------------------- the chat application
\* RVRChat runs on one coroutine.
AppTask == 1

\* RVRChat.start: "if not await self.mcp_client.start(): ... return False"
AppProceedsAlways(started) == TRUE

AppMayProceed(started) == started = "true"

\* The operation the application awaited has returned.
AppResumes(pc) == app.pc = pc /\ task[AppTask].pc = "idle" /\ LoopFree

ClientUnchanged ==
  UNCHANGED << process, request_id, lockHolder, lockWaiters, child, staleReads,
               wire, task, last, stopper, graceElapsed, hadTimeout,
               writeErrors, readLog, surfaced, fn >>

ClientUnchangedAndApp ==
  UNCHANGED << process, request_id, lockHolder, lockWaiters, child, staleReads,
               wire, task, last, stopper, graceElapsed, hadTimeout,
               writeErrors, readLog, surfaced, app, memory >>

\* RVRChat.__init__, run not yet begun.  Beside the attribute running: where
\* run is, what mcp_client.start returned, the tool calls of the model's
\* reply and the one being made, the turns taken, how the loop was left and
\* how often RVRChat.stop was called.
NewChat ==
  [ pc |-> "new", started |-> "none", running |-> FALSE, turns |-> 0,
    tool_calls |-> 0, k |-> 0, left |-> "", shutdowns |-> 0 ]

\* RVRChat.start returns False before a client exists: Ollama is not running
\* or the model cannot be pulled; run returns.
AppOllamaFails ==
  /\ app.pc = "new"
  /\ app' = [app EXCEPT !.pc = "exited"]
  /\ ClientUnchanged
  /\ UNCHANGED memory

\* RVRChat.start: MCPClient(mcp_command), await self.mcp_client.start()
AppStartMcp ==
  /\ app.pc = "new"
  /\ StartSpawnsBody(AppTask, MaxAppId)
  /\ app' = [app EXCEPT !.pc = "mcp_start"]
  /\ UNCHANGED memory

\* The same, with Popen raising inside MCPClient.start.
AppStartMcpSpawnFails ==
  /\ app.pc = "new"
  /\ StartSpawnFailsBody(AppTask)
  /\ app' = [app EXCEPT !.pc = "mcp_start"]
  /\ UNCHANGED memory

\* mcp_client.start() returned False: RVRChat.start returns False and run
\* returns.
AppStartFailed ==
  /\ AppResumes("mcp_start")
  /\ ~AppMayProceed(last.result)
  /\ app' = [app EXCEPT !.pc = "exited", !.started = last.result]
  /\ ClientUnchanged
  /\ UNCHANGED memory

\* mcp_client.start() returned True: self.tools = await list_tools()
AppLoadTools ==
  /\ AppResumes("mcp_start")
  /\ AppMayProceed(last.result)
  /\ ListToolsBody(AppTask, MaxAppId)
  /\ app' = [app EXCEPT !.pc = "list_tools", !.started = last.result]
  /\ UNCHANGED memory

\* The tools are loaded and converted, the system prompt opens the history;
\* auto_connect_rvr is set: call_tool("connect", {})
AppAutoConnect ==
  /\ AppResumes("list_tools")
  /\ CallToolBody(AppTask, TRUE, MaxAppId)
  /\ app' = [app EXCEPT !.pc = "connect"]
  /\ memory' = AddMessage(memory, "system", "system prompt", 0)

\* The same with auto_connect_rvr not set: RVRChat.start returns True, the
\* loop begins.
AppNoAutoConnect ==
  /\ AppResumes("list_tools")
  /\ app' = [app EXCEPT !.pc = "loop", !.running = TRUE]
  /\ ClientUnchanged
  /\ memory' = AddMessage(memory, "system", "system prompt", 0)

\* connect succeeded: call_tool("get_battery_status", {})
AppBattery ==
  /\ AppResumes("connect")
  /\ last.result = "value"
  /\ CallToolBody(AppTask, TRUE, MaxAppId)
  /\ app' = [app EXCEPT !.pc = "battery"]
  /\ UNCHANGED memory

\* connect did not report success: RVRChat.start returns True, the loop
\* begins (self.running = True).
AppConnectFailed ==
  /\ AppResumes("connect")
  /\ app' = [app EXCEPT !.pc = "loop", !.running = TRUE]
  /\ ClientUnchanged
  /\ UNCHANGED memory

\* The battery status is printed; RVRChat.start returns True, the loop begins.
AppAfterBattery ==
  /\ AppResumes("battery")
  /\ app' = [app EXCEPT !.pc = "loop", !.running = TRUE]
  /\ ClientUnchanged
  /\ UNCHANGED memory

\* A turn of the loop that calls a tool: a tool call of the model in
\* process_message, or /status, /connect, /disconnect in handle_command.
AppToolCall ==
  /\ AppResumes("loop")
  /\ CallToolBody(AppTask, TRUE, MaxAppId)
  /\ app' = [app EXCEPT !.pc = "turn"]
  /\ UNCHANGED memory

\* The tool call returned; the loop goes on.
AppAfterToolCall ==
  /\ AppResumes("turn")
  /\ app' = [app EXCEPT !.pc = "loop"]
  /\ ClientUnchanged
  /\ UNCHANGED memory

\* The ways the loop is left at the prompt: /quit sets running to False and
\* the while ends, EOFError and KeyboardInterrupt from the prompt break.
Ways == {"quit", "eof", "interrupt"}

\* run's finally has called RVRChat.stop, which awaits
\* call_tool("disconnect", {}): the loop was left the way given.
Leaving(a, way) ==
  [a EXCEPT !.pc = "disconnect", !.left = way, !.shutdowns = @ + 1,
            !.running = (@ /\ way # "quit")]

\* The loop is left at the prompt: the finally of run calls RVRChat.stop,
\* which calls call_tool("disconnect", {}).
AppShutdown(way) ==
  /\ AppResumes("loop")
  /\ CallToolBody(AppTask, TRUE, MaxAppId + 1)
  /\ app' = Leaving(app, way)
  /\ UNCHANGED memory

\* RVRChat.stop: await self.mcp_client.stop()
AppStopMcp ==
  /\ AppResumes("disconnect")
  /\ StopTerminateBody(AppTask)
  /\ app' = [app EXCEPT !.pc = "stopping"]
  /\ UNCHANGED memory

\* mcp_client.stop() returned; run returns.
AppExit ==
  /\ AppResumes("stopping")
  /\ app' = [app EXCEPT !.pc = "exited"]
  /\ ClientUnchanged
  /\ UNCHANGED memory

InitChat ==
  /\ ClientInit
  /\ app = NewChat
  /\ fn = NoFn
  /\ memory \in {ConversationMemory(n) : n \in 1..MaxHistory}

NextChat ==
  \/ AppOllamaFails
  \/ AppStartMcp
  \/ AppStartMcpSpawnFails
  \/ AppStartFailed
  \/ AppLoadTools
  \/ AppAutoConnect
  \/ AppNoAutoConnect
  \/ AppBattery
  \/ AppConnectFailed
  \/ AppAfterBattery
  \/ AppToolCall
  \/ AppAfterToolCall
  \/ \E way \in Ways : AppShutdown(way)
  \/ AppStopMcp
  \/ AppExit
  \/ DeliverLive(AppTask)
  \/ ReadEOF(AppTask)
  \/ Timeout(AppTask)
  \/ GraceTick
  \/ StopWaitReturns
  \/ StopWaitExpired
  \/ \E has \in {"result", "error"} : ChildRespond(has)
  \/ ChildIgnore
  \/ \E line \in NoiseLines : ChildNoise(line)
  \/ ChildExit
  \/ DeliverStale
  \/ StaleEOF

SpecChat == InitChat /\ [][NextChat]_vars

\* ------------------------------------------- the chat application, turn by turn
\* The responses _request can have returned when the message it returned is
\* m: no response; a result that is an object with one text element, or
\* null; an error that is an object with a message, or a string; neither.
ResponsesOf(m) ==
  IF m = None THEN {NoResponse}
  ELSE IF m.has = "result"
       THEN { Response(Result("object",
                              Content("array", TRUE,
                                      <<Element("object", Str("{}"))>>),
                              AbsentTools), AbsentError),
              Response(Result("null", AbsentContent, AbsentTools), AbsentError) }
  ELSE IF m.has = "error"
       THEN { Response(AbsentResult, Error("object", Str("not json"))),
              Response(AbsentResult, Error("string", Absent)) }
  ELSE {Response(AbsentResult, AbsentError)}

\* process_message up to its first await: the user's message is added and
\* _stream_chat is awaited.
AppTurnBegins ==
  /\ AppResumes("loop")
  /\ app.turns < MaxTurns
  /\ app' = [app EXCEPT !.pc = "stream", !.turns = @ + 1,
                        !.tool_calls = 0, !.k = 0]
  /\ memory' = AddMessage(memory, "user", "a", 0)
  /\ ClientUnchanged

\* _stream_chat raised: the error text is added as the assistant's message
\* and process_message returns.
AppStreamFails ==
  /\ AppResumes("stream")
  /\ app' = [app EXCEPT !.pc = "loop"]
  /\ memory' = AddMessage(memory, "assistant", "LLM error", 0)
  /\ ClientUnchanged

\* The model answered without tool calls: its text is added as the
\* assistant's message.
AppStreamAnswers ==
  /\ AppResumes("stream")
  /\ app' = [app EXCEPT !.pc = "loop"]
  /\ memory' = AddMessage(memory, "assistant", "b", 0)
  /\ ClientUnchanged

\* The model asked for n tool calls: its message is added with them and the
\* first is made, await self.mcp_client.call_tool(tool_name, tool_args).
AppStreamCallsTools(n) ==
  /\ AppResumes("stream")
  /\ CallToolBody(AppTask, TRUE, MaxAppId)
  /\ app' = [app EXCEPT !.pc = "tool_call", !.tool_calls = n, !.k = 1]
  /\ memory' = AddMessage(memory, "assistant", "", n)

\* call_tool returned a value for tool call k: add_tool_result, and the
\* loop makes the next tool call.
AppNextToolCall ==
  /\ AppResumes("tool_call")
  /\ app.k < app.tool_calls
  /\ \E resp \in ResponsesOf(last.ret) :
        /\ CallTool(resp).how = "return"
        /\ memory' = AddToolResult(memory, app.k, CallTool(resp).kind)
  /\ CallToolBody(AppTask, TRUE, MaxAppId)
  /\ app' = [app EXCEPT !.k = @ + 1]

\* call_tool returned a value for the last tool call: add_tool_result, and
\* the follow-up _stream_chat is awaited.
AppFollowUp ==
  /\ AppResumes("tool_call")
  /\ app.k = app.tool_calls
  /\ \E resp \in ResponsesOf(last.ret) :
        /\ CallTool(resp).how = "return"
        /\ memory' = AddToolResult(memory, app.k, CallTool(resp).kind)
  /\ app' = [app EXCEPT !.pc = "followup"]
  /\ ClientUnchanged

\* What the follow-up gave: the reply of the model, or the text made of the
\* exception it raised.
FollowUps == {"b", "Error getting follow-up"}

\* The follow-up has ended: its content is added as the assistant's message.
AppTurnEnds(content) ==
  /\ AppResumes("followup")
  /\ app' = [app EXCEPT !.pc = "loop"]
  /\ memory' = AddMessage(memory, "assistant", content, 0)
  /\ ClientUnchanged

\* call_tool raised in process_message or in handle_command: the exception
\* leaves the loop, and the finally of run calls RVRChat.stop.
AppTurnRaises ==
  /\ app.pc \in {"turn", "tool_call"}
  /\ AppResumes(app.pc)
  /\ \E resp \in ResponsesOf(last.ret) : CallTool(resp).how = "raise"
  /\ CallToolBody(AppTask, TRUE, MaxAppId + 1)
  /\ app' = Leaving(app, "exception")
  /\ UNCHANGED memory

\* The disconnect call_tool raised: RVRChat.stop ends there, before
\* mcp_client.stop, and the exception leaves run.
AppDisconnectRaises ==
  /\ AppResumes("disconnect")
  /\ \E resp \in ResponsesOf(last.ret) : CallTool(resp).how = "raise"
  /\ app' = [app EXCEPT !.pc = "exited"]
  /\ ClientUnchanged
  /\ UNCHANGED memory

\* list_tools or a call_tool of RVRChat.start raised: the exception leaves
\* start and run, which has not reached its try.
AppStartRaises ==
  /\ app.pc \in {"list_tools", "connect", "battery"}
  /\ AppResumes(app.pc)
  /\ \E resp \in ResponsesOf(last.ret) :
        IF app.pc = "list_tools" THEN ListTools(resp).how = "raise"
        ELSE CallTool(resp).how = "raise"
  /\ app' = [app EXCEPT !.pc = "exited", !.left = "start_raised"]
  /\ ClientUnchanged
  /\ UNCHANGED memory

NextTurns ==
  \/ AppOllamaFails
  \/ AppStartMcp
  \/ AppStartMcpSpawnFails
  \/ AppStartFailed
  \/ AppLoadTools
  \/ AppAutoConnect
  \/ AppNoAutoConnect
  \/ AppBattery
  \/ AppConnectFailed
  \/ AppAfterBattery
  \/ AppStartRaises
  \/ AppToolCall
  \/ AppAfterToolCall
  \/ AppTurnBegins
  \/ AppStreamFails
  \/ AppStreamAnswers
  \/ \E n \in 1..MaxCalls : AppStreamCallsTools(n)
  \/ AppNextToolCall
  \/ AppFollowUp
  \/ \E content \in FollowUps : AppTurnEnds(content)
  \/ AppTurnRaises
  \/ \E way \in Ways : AppShutdown(way)
  \/ AppDisconnectRaises
  \/ AppStopMcp
  \/ AppExit
  \/ DeliverLive(AppTask)
  \/ ReadEOF(AppTask)
  \/ Timeout(AppTask)
  \/ GraceTick
  \/ StopWaitReturns
  \/ StopWaitExpired
  \/ \E has \in {"result", "error"} : ChildRespond(has)
  \/ ChildIgnore
  \/ \E line \in NoiseLines : ChildNoise(line)
  \/ ChildExit
  \/ DeliverStale
  \/ StaleEOF

SpecTurns == InitChat /\ [][NextTurns]_vars

\* ------------------------------------------------ the decoding functions, run
\* call_tool's _request has returned resp: call_tool runs to its end.
CallToolReturns ==
  /\ fn.pc = "response"
  /\ fn' = [fn EXCEPT !.pc = "call_tool", !.value = CallTool(fn.resp)]
  /\ ClientUnchangedAndApp

\* list_tools' _request has returned resp: list_tools runs to its end.
ListToolsReturns ==
  /\ fn.pc = "response"
  /\ fn' = [fn EXCEPT !.pc = "list_tools", !.tools = ListTools(fn.resp)]
  /\ ClientUnchangedAndApp

\* RVRChat.start: self.ollama_tools = convert_tools_to_ollama(self.tools)
ConvertTools ==
  /\ fn.pc = "list_tools"
  /\ fn.tools.how = "return"
  /\ fn' = [fn EXCEPT !.pc = "converted",
                      !.before = fn.tools.v,
                      !.ollama = ConvertToolsToOllama(fn.tools.v)]
  /\ ClientUnchangedAndApp

\* Every response _request can return, handed to call_tool or to list_tools.
InitDecode ==
  /\ ClientInit
  /\ app = [pc |-> "decode", started |-> "none"]
  /\ fn \in {FnGiven(r) : r \in Responses}
  /\ memory = NoMemory

NextDecode ==
  \/ CallToolReturns
  \/ ListToolsReturns
  \/ ConvertTools

SpecDecode == InitDecode /\ [][NextDecode]_vars

\* ------------------------------------------- a ConversationMemory, called
\* The messages the callers add: a system prompt, user and assistant texts,
\* an assistant message with a tool call.
Added ==
  { Message("system", 0, "system prompt", 0) }
    \cup { Message(r, 0, c, 0) : r \in {"user", "assistant"}, c \in {"a", "b"} }
    \cup { Message("assistant", 0, "", 1) }

\* memory.add_message(role, content, tool_calls)
MemoryAddMessage(m) ==
  /\ Len(memory.messages) < MaxStored
  /\ memory' = AddMessage(memory, m.role, m.content, m.tool_calls)
  /\ ClientUnchanged
  /\ UNCHANGED app

\* memory.add_tool_result(tool_name, result)
MemoryAddToolResult ==
  /\ Len(memory.messages) < MaxStored
  /\ memory' = AddToolResult(memory, 1, "value")
  /\ ClientUnchanged
  /\ UNCHANGED app

\* memory.clear()
MemoryClear ==
  /\ memory' = Clear(memory)
  /\ ClientUnchanged
  /\ UNCHANGED app

\* A new history of every max_messages from 1 on, under any sequence of calls.
InitMemory ==
  /\ ClientInit
  /\ app = [pc |-> "memory", started |-> "none"]
  /\ fn = NoFn
  /\ memory \in {ConversationMemory(n) : n \in 1..MaxHistory}

NextMemory ==
  \/ \E m \in Added : MemoryAddMessage(m)
  \/ MemoryAddToolResult
  \/ MemoryClear

SpecMemory == InitMemory /\ [][NextMemory]_vars

\* ------------------------------------------------------------- the claims
IsRequest(e) == e.id # 0

\* The requests written to the child, in write order.
Requests == SelectSeq(wire, IsRequest)

\* C1 as stated: the ids of the requests written to the child are exactly
\* 1, 2, 3, ... in write order.
C1_WrittenIdsConsecutive ==
  \A i \in 1..Len(Requests) : Requests[i].id = i

\* C1 as amended: every id taken is the previous one plus 1 (the counter
\* equals the number of calls that took one), the written ids strictly
\* increase so that none is written twice, also after a timeout, and the ids
\* missing on the wire are exactly those of the calls whose write raised.
C1_IdsIncreaseWithoutReuse ==
  /\ \A i \in 1..Len(Requests) : Requests[i].id \in 1..request_id
  /\ \A i, j \in 1..Len(Requests) : i < j => Requests[i].id < Requests[j].id
  /\ Len(Requests) + writeErrors = request_id
  /\ writeErrors = 0 => C1_WrittenIdsConsecutive

\* A call timed out, a later call failed before its write, and a call after
\* that wrote its request.
C1_Witness ==
  /\ hadTimeout
  /\ writeErrors >= 1
  /\ Len(Requests) >= 2
  /\ Requests[Len(Requests)].id = request_id
  /\ ~C1_WrittenIdsConsecutive

\* C2 as stated: a call returns a response only if the response's id equals
\* the id of the request the call wrote.
C2_ResponseMatchesRequest ==
  last.how = "response" => last.ret.id = last.callId

\* C3 as stated: a call made after another call timed out returns the
\* response to its own request and no other message, and a response to its
\* own request that the child wrote while the call waited is what it returns.
C3_UsableAfterTimeout ==
  (last.afterTimeout /\ last.op \in {"start", "list_tools", "call_tool"}) =>
     /\ last.how = "response" => last.ret.id = last.callId
     /\ last.ownTaken => (last.how = "response" /\ last.ret.id = last.callId)

Reading == {t \in Tasks : task[t].pc = "reading"}

\* C4: at most one request is outstanding, the task that waits for a
\* response is the one that holds the lock, the lock is held by nobody that
\* has returned (it is released after every outcome), and a request is
\* written only in a step before which no request was outstanding.
C4_SingleFlight ==
  /\ [](/\ Cardinality(Reading) <= 1
        /\ \A t \in Reading : lockHolder = t
        /\ lockHolder # 0 => lockHolder \in Reading
        /\ lockHolder # 0 =>
             /\ Requests # <<>>
             /\ task[lockHolder].callId = Requests[Len(Requests)].id)
  /\ [][Len(Requests') > Len(Requests) => (Reading = {} /\ lockHolder = 0)]_vars

\* A call has timed out and released the lock, and now one task waits for a
\* response while another waits for the lock.
C4_Witness ==
  /\ hadTimeout
  /\ \E t, u \in Tasks :
       /\ task[t].pc = "reading"
       /\ task[u].pc = "waiting"
       /\ lockHolder = t

\* The line trimmed of whitespace, as the claim reads it: from its first to
\* its last token that is not whitespace.
Trimmed(line) ==
  LET keep == {i \in 1..Len(line) : line[i].c # "SP"}
  IN  IF keep = {} THEN <<>>
      ELSE SubSeq(line, CHOOSE i \in keep : \A j \in keep : i <= j,
                        CHOOSE i \in keep : \A j \in keep : j <= i)

\* The line is a JSON object: "{}" or "{" members "}".
IsJsonObject(s) ==
  \/ (Len(s) = 2 /\ s[1].c = "LB" /\ s[2].c = "RB")
  \/ (Len(s) = 3 /\ s[1].c = "LB" /\ s[2].c = "BODY" /\ s[3].c = "RB")

\* After trimming the line is non-empty, starts with "{" and decodes.
ShouldSurface(line) ==
  /\ Trimmed(line) # <<>>
  /\ Trimmed(line)[1].c = "LB"
  /\ IsJsonObject(Trimmed(line))

\* The object a line that should surface holds.
ObjectOf(line) ==
  IF Len(Trimmed(line)) = 2 THEN Msg(0, "none")
  ELSE Msg(Trimmed(line)[2].id, Trimmed(line)[2].has)

RECURSIVE ExpectedSurfaced(_)
ExpectedSurfaced(log) ==
  IF log = <<>> THEN <<>>
  ELSE IF ShouldSurface(Head(log))
       THEN <<ObjectOf(Head(log))>> \o ExpectedSurfaced(Tail(log))
       ELSE ExpectedSurfaced(Tail(log))

AtEndOfStream == child.out = <<>> /\ child.state \in {"exited", "reaped"}

\* C6: a call that waits while stdout is at end-of-stream ends in its next
\* step, with the failure of the closed stream and no message, and without a
\* timeout: no readline is left behind and no timeout is recorded.
C6_EndOfStreamEndsCall ==
  [][ \A t \in Tasks :
        (task[t].pc = "reading" /\ AtEndOfStream /\ task'[t] # task[t]) =>
           /\ task'[t].pc = "idle"
           /\ last'.how = "closed"
           /\ last'.ret = None
           /\ last'.callId = task[t].callId
           /\ lockHolder' = 0
           /\ hadTimeout' = hadTimeout
           /\ staleReads' = staleReads ]_vars

\* A call has ended on end-of-stream with no call having timed out.
C6_Witness ==
  /\ last.how = "closed"
  /\ last.ret = None
  /\ last.callId >= 1
  /\ ~hadTimeout

FailureKinds == {"timeout", "closed", "error"}

\* C7 as stated: a timeout, a closed stream and a write error are never
\* reported to the caller as the same value.
C7_FailuresDistinguishable ==
  [][ ( /\ last.how \in FailureKinds
        /\ last'.how \in FailureKinds
        /\ last'.how # last.how ) => last'.ret # last.ret ]_vars

\* C8 as stated: when stop has returned, the child was reaped exactly once,
\* whether it exited in the grace period or was killed, and was signalled
\* and killed at most once.
C8_StopReapsExactlyOnce ==
  (last.op = "stop" /\ last.how \in {"exited", "killed"} /\ process = 0) =>
     /\ child.state = "reaped"
     /\ child.reaps = 1
     /\ child.terms = 1
     /\ child.kills <= 1
     /\ (child.kills = 1 <=> last.how = "killed")

\* A start has returned in this step.
StartReturns == last' # last /\ last'.op = "start"

HasResult(m) == m # None /\ m.has = "result"

\* start returns true exactly when the response to initialize has a result,
\* and a start that returns false writes nothing when it returns.
C9_HandshakeVerdict ==
  /\ (last'.result = "true") <=> HasResult(last'.ret)
  /\ last'.result \in {"true", "false"}
  /\ last'.result = "false" => wire' = wire
  /\ last'.result = "true" =>
       \E i \in 1..Len(wire) :
          wire[i] = [id |-> last'.callId, method |-> "initialize"]

\* C9 as stated: on success exactly one initialized notification is written,
\* after the initialize request and before start returns true.
C9_NotificationAlwaysWritten ==
  [][ StartReturns =>
        /\ C9_HandshakeVerdict
        /\ last'.result = "true" => wire' = Append(wire, Notification) ]_vars

\* C9 as amended: on success at most one initialized notification is written:
\* exactly one when the client still holds its process and the child still
\* reads its stdin, none when the write fails, which _notify swallows.
C9_NotificationBestEffort ==
  [][ StartReturns =>
        /\ C9_HandshakeVerdict
        /\ last'.result = "true" =>
             IF process' # 0 /\ child'.state = "running"
             THEN wire' = Append(wire, Notification)
             ELSE wire' = wire ]_vars

\* start has returned true and the notification is the last line written.
C9_Witness ==
  /\ last.op = "start"
  /\ last.result = "true"
  /\ Len(wire) = 2
  /\ wire[1].method = "initialize"
  /\ wire[2] = Notification

ToolRequestWritten ==
  \E i \in 1..Len(wire) : wire[i].method \in {"tools/list", "tools/call"}

\* C10: no tools/list and no tools/call is written before the client's start
\* has returned true; when it returned false the application has given up:
\* no tool request was written and none will be, the loop never runs.
C10_NoToolBeforeHandshake ==
  /\ ToolRequestWritten => app.started = "true"
  /\ app.pc \in {"new", "mcp_start"} => ~ToolRequestWritten
  /\ app.started = "false" => (app.pc = "exited" /\ ~ToolRequestWritten)
  /\ app.started = "true" =>
       \E i \in 1..Len(wire) : wire[i].method = "initialize"

\* The handshake failed after the initialize request was written, and the
\* application has given up.
C10_Witness ==
  /\ app.started = "false"
  /\ app.pc = "exited"
  /\ Len(wire) = 1
  /\ wire[1].method = "initialize"

\* The response has a result whose content is a non-empty list.
NonEmptyContent(resp) ==
  /\ ~resp.none
  /\ resp.result.t = "object"
  /\ resp.result.content.t = "array"
  /\ resp.result.content.items # <<>>

\* C11 as stated: call_tool never raises, whatever _request returned, and on
\* every path but that of a non-empty content list the value it returns
\* carries an error key.
C11_CallToolNeverRaises ==
  fn.pc = "call_tool" =>
     /\ fn.value.how = "return"
     /\ ~NonEmptyContent(fn.resp) => "error" \in fn.value.v.keys

\* C12 as stated: with a non-empty content list call_tool returns the decode
\* of the text of the first element, or {result: text} when the text does not
\* decode, never a value made by the error paths, and nothing but the first
\* element decides the value.
C12_FirstTextDecoded ==
  (fn.pc = "call_tool" /\ NonEmptyContent(fn.resp)) =>
     LET text == fn.resp.result.content.items[1].text
     IN  /\ fn.value.how = "return"
         /\ fn.value.kind \in {"decoded", "wrapped"}
         /\ fn.value.kind = "decoded" =>
              fn.value.v.of = (IF text.t = "absent" THEN Str("{}") ELSE text)
         /\ fn.value.kind = "wrapped" =>
              fn.value.v = [t |-> "object", keys |-> {"result"}, of |-> text]

\* C13 as stated: a response with an error member (and no result, as a
\* response has one or the other) gives {error: message}, or the fallback
\* when the message is absent; no response, or one with neither a non-empty
\* content list nor an error, gives {error: "No response from MCP server"}.
C13_ErrorOrNoResponse ==
  fn.pc = "call_tool" =>
     /\ (HasErrorMember(fn.resp) /\ ~HasResultMember(fn.resp)) =>
          /\ fn.value.how = "return"
          /\ fn.value.v.keys = {"error"}
          /\ fn.value.v.of = (IF fn.resp.error.message.t = "absent"
                              THEN Str("Unknown error")
                              ELSE fn.resp.error.message)
     /\ (~HasErrorMember(fn.resp) /\ ~NonEmptyContent(fn.resp)) =>
          /\ fn.value.how = "return"
          /\ fn.value.v.keys = {"error"}
          /\ fn.value.v.of = Str("No response from MCP server")

\* C14 as stated: list_tools never raises; it returns the tools member of the
\* result as it is, and the empty list when there is no response, no result,
\* or no tools member in the result.
C14_ListToolsNeverRaises ==
  fn.pc \in {"list_tools", "converted"} =>
     /\ fn.tools.how = "return"
     /\ IF /\ HasResultMember(fn.resp)
           /\ fn.resp.result.t = "object"
           /\ fn.resp.result.tools.t # "absent"
        THEN fn.tools.v = fn.resp.result.tools
        ELSE fn.tools.v = [t |-> "array", items |-> <<>>]

\* Every descriptor of the list has a name.
AllNamed(l) ==
  l.t = "array" /\ \A i \in 1..Len(l.items) : l.items[i].name.t = "string"

\* C15: on descriptors that have names convert_tools_to_ollama returns a
\* list of the same length whose i-th element is {type: "function", function:
\* {name, description, parameters}} with the name of descriptor i, its
\* description or "" and its input schema or the empty-object schema; the
\* descriptors are as they were.
C15_ConvertKeepsShapeAndOrder ==
  (fn.pc = "converted" /\ AllNamed(fn.before)) =>
     /\ fn.ollama.how = "return"
     /\ Len(fn.ollama.v) = Len(fn.before.items)
     /\ fn.tools.v = fn.before
     /\ \A i \in 1..Len(fn.before.items) :
          LET d == fn.before.items[i]
              o == fn.ollama.v[i]
          IN  /\ DOMAIN o = {"type", "function"}
              /\ o.type = "function"
              /\ DOMAIN o.function = {"name", "description", "parameters"}
              /\ o.function.name = d.name
              /\ o.function.description =
                   (IF d.description.t = "absent" THEN Str("") ELSE d.description)
              /\ o.function.parameters =
                   (IF d.inputSchema.t = "absent"
                    THEN Scalar("object", "{\"type\":\"object\",\"properties\":{}}")
                    ELSE d.inputSchema)

\* Two descriptors were converted, the first without description and input
\* schema, the second with both.
C15_Witness ==
  /\ fn.pc = "converted"
  /\ fn.ollama.how = "return"
  /\ Len(fn.ollama.v) = 2
  /\ fn.before.items[1].inputSchema.t = "absent"
  /\ fn.before.items[1].description.t = "absent"
  /\ fn.before.items[2].inputSchema.t = "object"
  /\ fn.before.items[2].description.t = "string"
  /\ fn.before.items[1].name # fn.before.items[2].name

\* C16 as stated: a child that writes to its stderr is never kept from
\* answering: no call waits for, or has given up on, a response while the
\* child that holds its request is blocked in a write to stderr.
C16_StderrNeverBlocksReadPath ==
  child.state = "blocked" =>
     /\ \A t \in Tasks : task[t].pc # "reading"
     /\ ~(last.how = "timeout" /\ \E i \in 1..Len(child.inbox) :
                                     child.inbox[i] = last.callId)

\* C17 as stated: every call terminates, whatever the child does: a task
\* that is in an operation is later in none.
C17_EveryCallTerminates ==
  \A t \in Tasks : (task[t].pc # "idle") ~> (task[t].pc = "idle")

\* C18: in the step in which start goes on from a successful handshake to
\* _notify and returns, _notify writes one line without an id or, when its
\* write fails, nothing, and start returns true all the same; the request id
\* counter is as it was, nothing but the response to initialize has been read
\* from the child's stdout, no readline is left behind, nobody starts to wait
\* and the lock is free.
C18_NotifyOnlyWrites ==
  [][ (StartReturns /\ last'.result = "true") =>
        /\ \/ wire' = wire
           \/ /\ Len(wire') = Len(wire) + 1
              /\ SubSeq(wire', 1, Len(wire)) = wire
              /\ wire'[Len(wire')].id = 0
              /\ wire'[Len(wire')].method = "notifications/initialized"
        /\ wire' = wire <=> ~(process' # 0 /\ Alive(child'))
        /\ request_id' = request_id
        /\ child'.out = Tail(child.out)
        /\ child'.inbox = child.inbox
        /\ staleReads' = staleReads
        /\ \A t \in Tasks : task'[t] = task[t] \/ task'[t].pc = "idle"
        /\ lockHolder' = 0 ]_vars

\* start has returned true, its notification is the last line on the wire,
\* the counter stands at the id of the initialize request and nobody waits.
C18_Witness ==
  /\ last.op = "start"
  /\ last.result = "true"
  /\ wire # <<>>
  /\ wire[Len(wire)].id = 0
  /\ request_id = last.callId
  /\ \A t \in Tasks : task[t].pc = "idle"
  /\ lockHolder = 0

\* stop has returned while the call of task t waits for its response.
StoppedInFlight(t) == task[t].pc = "reading" /\ process = 0

\* The call of task t ends in this step.
CallEnds(t) == task[t].pc = "reading" /\ task'[t].pc = "idle"

\* What C19 holds in either form: stop has completed (the child is dead and
\* the handle is cleared), the call that was in flight ends by returning (its
\* outcome is recorded, no exception leaves it), the lock is released, the
\* call leaves no readline behind, and a readline that an earlier timeout
\* left behind cannot stay blocked: the dead child's stdout has a line left
\* or is at end-of-stream.
C19_StopAndCallBothEnd ==
  /\ [](\A t \in Tasks : StoppedInFlight(t) => (~Alive(child) /\ stopper = 0))
  /\ []((process = 0 /\ child.gen > 0) => ~Alive(child))
  /\ [][ \A t \in Tasks : (StoppedInFlight(t) /\ CallEnds(t)) =>
           /\ last'.callId = task[t].callId
           /\ last'.op = task[t].op
           /\ last'.how \in {"response", "closed", "error", "timeout"}
           /\ last'.how # "response" => last'.ret = None
           /\ lockHolder' = 0
           /\ staleReads' = staleReads ]_vars
  /\ [][ \A t \in Tasks : StoppedInFlight(t) =>
           (task'[t] = task[t] \/ CallEnds(t) \/ task'[t].ownTaken) ]_vars

\* C19 as stated: the call that was in flight when stop ran ends with a
\* failure value.
C19_InFlightCallFails ==
  /\ C19_StopAndCallBothEnd
  /\ [][ \A t \in Tasks : (StoppedInFlight(t) /\ CallEnds(t)) =>
           last'.ret = None ]_vars

\* C19 as amended: the call that was in flight ends with a failure value, or
\* with a message the child had written to its stdout before it died.
C19_InFlightCallEnds ==
  /\ C19_StopAndCallBothEnd
  /\ [][ \A t \in Tasks : (StoppedInFlight(t) /\ CallEnds(t)) =>
           \/ last'.ret = None
           \/ /\ last'.how = "response"
              /\ child.out # <<>>
              /\ last'.ret = LineResult(Head(child.out)) ]_vars

\* stop ran while a call was in flight and had to kill the child; the call
\* has ended on the closed stream and nothing is left locked or pending.
C19_Witness ==
  /\ last.how = "closed"
  /\ last.op \in {"list_tools", "call_tool"}
  /\ process = 0
  /\ child.kills = 1
  /\ lockHolder = 0
  /\ staleReads = 0
  /\ \A t \in Tasks : task[t].pc = "idle"

\* An operation was begun and has returned in this step.
ReturnsAtOnce == last' # last /\ task' = task

\* C20: while the client holds no process nothing is written and no child
\* is signalled, killed or reaped; a list_tools, call_tool or stop begun
\* then returns at once, list_tools with the empty list, call_tool with the
\* no-response error, stop having done nothing, and leaves the id counter
\* alone; a child is created by start alone, and is a new one.
C20_DeadHandleNotReused ==
  /\ [][ (process = 0 /\ process' = 0) =>
           /\ wire' = wire
           /\ [child' EXCEPT !.out = <<>>] = [child EXCEPT !.out = <<>>] ]_vars
  /\ [][ ( /\ process = 0
           /\ \A t \in Tasks : task[t].pc = "idle"
           /\ (last' # last \/ task' # task \/ process' # process) ) =>
           \/ /\ ReturnsAtOnce
              /\ process' = 0
              /\ request_id' = request_id
              /\ last'.ret = None
              /\ last'.op \in {"start", "list_tools", "call_tool", "stop"}
              /\ last'.op = "start" => last'.result = "false"
              /\ last'.op = "list_tools" => last'.result = "empty"
              /\ last'.op = "call_tool" => last'.result = "no_response"
           \/ /\ process' # 0
              /\ \E t \in Tasks : task'[t].op = "start"
              /\ child'.gen = child.gen + 1
              /\ child'.state = "running" ]_vars
  /\ [][ child'.gen # child.gen =>
           (process = 0 /\ process' = child'.gen /\ child'.gen = child.gen + 1) ]_vars

\* After a stop a call_tool has returned the no-response error, nothing
\* having been written since the stop, and a new start has made a second
\* child.
C20_Witness ==
  /\ child.gen = 2
  /\ process = 2
  /\ last.op = "call_tool"
  /\ last.how = "noproc"
  /\ last.result = "no_response"

\* The history never holds more than max_messages messages.
HistoryBounded == Len(memory.messages) <= memory.max_messages

\* While the first message is a system prompt it stays the first message.
PromptStaysFirst ==
  [][ FirstIsSystem(memory.messages) =>
        /\ memory.messages' # <<>>
        /\ memory.messages'[1] = memory.messages[1] ]_vars

\* A step that changes a history whose first message is a system prompt
\* clears it down to the prompt, or adds one message and drops nothing but
\* the oldest messages after the prompt.
DropsOldestAfterPrompt ==
  [][ (FirstIsSystem(memory.messages) /\ memory.messages' # memory.messages) =>
        \/ memory.messages' = <<memory.messages[1]>>
        \/ /\ memory.messages' # <<>>
           /\ LET h == Append(memory.messages,
                              memory.messages'[Len(memory.messages')])
              IN  \E k \in 2..Len(h) :
                     memory.messages' = <<h[1]>> \o SubSeq(h, k, Len(h)) ]_vars

\* C25 as stated: for every max_messages >= 1 and after any sequence of
\* add_message, add_tool_result and clear the history holds at most
\* max_messages messages, and when its first message is a system prompt that
\* message stays first, trimming dropping only the oldest messages after it.
C25_HistoryBoundedKeepsPrompt ==
  /\ []HistoryBounded
  /\ PromptStaysFirst
  /\ DropsOldestAfterPrompt

\* C22 as stated: at most one read of the child's stdout is pending at any
\* time, a read left by a call that timed out included, and no line the
\* child wrote is taken from its stdout by a read that a timed-out call left
\* behind.
C22_NoLeftoverRead ==
  /\ [](staleReads + Cardinality(Reading) <= 1)
  /\ [][ ~( /\ staleReads' < staleReads
            /\ child'.gen = child.gen
            /\ Len(child'.out) < Len(child.out) ) ]_vars

\* C23 as stated: when the application has given up because the client's
\* start returned false with a child spawned, the child has been terminated
\* and reaped and the client holds no process.
C23_FailedStartLeavesNoChild ==
  (app.pc = "exited" /\ app.started = "false" /\ child.gen > 0) =>
     /\ process = 0
     /\ child.state = "reaped"
     /\ child.terms + child.kills >= 1

\* process_message is at one of its awaits.
InTurn == app.pc \in {"stream", "tool_call", "followup"}

\* The newest message of the history.
Newest(mem) == mem.messages[Len(mem.messages)]

\* This step has appended the result of tool call k to the history.
ResultAppended(k) ==
  /\ memory.messages' = Append(memory.messages, Newest(memory'))
  /\ Newest(memory').role = "tool"
  /\ Newest(memory').name = k

\* This step has added an assistant message without tool calls.
FinalAdded ==
  /\ memory.messages' # memory.messages
  /\ memory.messages' # <<>>
  /\ Newest(memory').role = "assistant"
  /\ Newest(memory').tool_calls = 0

\* The tool calls of a turn are made one at a time in the model's order:
\* a step makes tool call k + 1 only when call k has returned, and it appends
\* the result of call k; the first follows the assistant message that
\* carries the calls.
ToolCallsInOrder ==
  [][ (app'.pc = "tool_call" /\ (app.pc # "tool_call" \/ app'.k # app.k)) =>
        /\ task[AppTask].pc = "idle"
        /\ app'.k = app.k + 1
        /\ app'.k <= app'.tool_calls
        /\ IF app.k = 0
           THEN /\ app.pc = "stream"
                /\ Newest(memory').role = "assistant"
                /\ Newest(memory').tool_calls = app'.tool_calls
           ELSE ResultAppended(app.k)
        /\ \/ wire' = Append(wire, [id |-> request_id', method |-> "tools/call"])
           \/ (wire' = wire /\ task'[AppTask].pc = "idle") ]_vars

\* The follow-up call of the model starts only when the last tool call has
\* returned and the results of all are in the history, in order, after the
\* assistant message that carried the calls.
FollowUpAfterResults ==
  [][ (app'.pc = "followup" /\ app.pc # "followup") =>
        /\ app.pc = "tool_call"
        /\ task[AppTask].pc = "idle"
        /\ app.k = app.tool_calls
        /\ ResultAppended(app.k)
        /\ LET n == app.tool_calls
               l == Len(memory.messages')
           IN  /\ l > n
               /\ memory.messages'[l - n].role = "assistant"
               /\ memory.messages'[l - n].tool_calls = n
               /\ \A j \in 1..n :
                    /\ memory.messages'[l - n + j].role = "tool"
                    /\ memory.messages'[l - n + j].name = j ]_vars

\* Every turn adds exactly one final assistant message: none while it
\* lasts, one in the step that ends it.
OneFinalMessage ==
  /\ [][ InTurn' => ~FinalAdded ]_vars
  /\ [][ (InTurn /\ ~InTurn') => (app'.pc = "loop" /\ FinalAdded) ]_vars

\* C21 as stated: within a turn the tool calls are made one at a time in the
\* model's order, each after the one before has returned and its result is
\* in the history; the follow-up starts after all results are recorded;
\* exactly one final assistant message is added per turn.
C21_TurnIsSequential ==
  /\ ToolCallsInOrder
  /\ FollowUpAfterResults
  /\ OneFinalMessage

\* run is in its loop: at the prompt, in a command or in process_message.
InLoop == app.pc = "loop" \/ app.pc = "turn" \/ InTurn

\* Every way out of the loop calls RVRChat.stop, which issues the
\* disconnect call: in the step that leaves the loop the call is begun and
\* its request written, unless the write fails and the call ends at once.
LeavingRunsShutdown ==
  [][ (InLoop /\ ~InLoop') =>
        /\ app'.pc = "disconnect"
        /\ app'.left \in Ways \cup {"exception"}
        /\ app'.shutdowns = app.shutdowns + 1
        /\ request_id' = request_id + 1
        /\ \/ wire' = Append(wire, [id |-> request_id', method |-> "tools/call"])
           \/ (wire' = wire /\ task'[AppTask].pc = "idle") ]_vars

\* The child is signalled only when the disconnect call has returned, and
\* once stop has begun nothing is written to the child.
StopAfterDisconnect ==
  /\ [][ child'.terms > child.terms =>
           (app.pc = "disconnect" /\ task[AppTask].pc = "idle") ]_vars
  /\ [][ (stopper # 0 \/ child.terms > 0) => wire' = wire ]_vars

\* run has ended after its loop was left: the shutdown ran once and the
\* child was stopped.
StoppedOnExit ==
  (app.pc = "exited" /\ app.left \in Ways \cup {"exception"}) =>
     /\ app.shutdowns = 1
     /\ child.terms = 1
     /\ ~Alive(child)
     /\ process = 0

\* C24 as stated: once the loop has started, every way of leaving it runs
\* the shutdown exactly once, the disconnect call first and the stop of the
\* child after it, and nothing is written to the child once stop has begun.
C24_ShutdownOnceInOrder ==
  /\ LeavingRunsShutdown
  /\ StopAfterDisconnect
  /\ []StoppedOnExit

====
